---- MODULE Spec2Model ----
(***************************************************************************)
(* LokaSync backend: the MQTT-driven OTA log ingestion pipeline.           *)
(*                                                                         *)
(*   externals/mqtts/subscribe.py  on_message, upsert_log (the task)       *)
(*   services/log.py               LogService.upsert_log_from_mqtt         *)
(*   repositories/log.py           LogRepository.upsert_log                *)
(*   externals/mqtts/publish.py    publish_log_data                        *)
(*   models/log.py                 LogModel                                *)
(*   externals/mqtts/client.py, run.py, main.py   the subsystem lifecycle  *)
(*   repositories/node.py, services/node.py       add_new_node,            *)
(*                                                upsert_firmware          *)
(*   services/log.py, repositories/log.py         delete_log               *)
(*   cores/database.py                            the store connection     *)
(*                                                                         *)
(* The transport thread calls on_message once per inbound message; an      *)
(* accepted message becomes a task on the event loop.  A task suspends at  *)
(* every awaited store operation (find_one, update_one, insert_one), so    *)
(* the store operations of different tasks interleave freely.              *)
(*                                                                         *)
(* Python dicts are functions with string domains.  An optional value is   *)
(* Null (None) or <<v>>.  A str that the code inspects character by        *)
(* character (the `message` text) is a sequence of one-character strings.  *)
(***************************************************************************)
EXTENDS Integers, Sequences, FiniteSets, TLC

\* ------------------------------------------------------------------ bounds
MaxTasks == 2
MaxClock == 1

\* ------------------------------------------------------------ value helpers
Null == <<>>

Some(v) == <<v>>

\* {**base, **over}: the members of `over` win.
DictMerge(base, over) ==
    [f \in (DOMAIN base) \cup (DOMAIN over) |->
        IF f \in DOMAIN over THEN over[f] ELSE base[f]]

\* ------------------------------------------------------------ enums/log.py
IN_PROGRESS == "in progress"

SUCCESS == "success"

FAILED == "failed"

LogStatus == {SUCCESS, FAILED, IN_PROGRESS}

\* ------------------------------------------------- message texts (as chars)
OtaUpdateStarted ==
    <<"o", "t", "a", " ", "u", "p", "d", "a", "t", "e", " ", "s", "t", "a", "r", "t", "e", "d">>

FirmwareSizeOk ==
    <<"f", "i", "r", "m", "w", "a", "r", "e", " ", "s", "i", "z", "e", " ", "o", "k">>

FirmwareBytesWritten ==
    <<"f", "i", "r", "m", "w", "a", "r", "e", " ", "b", "y", "t", "e", "s", " ", "w", "r", "i", "t", "t", "e", "n">>

DownloadTime ==
    <<"d", "o", "w", "n", "l", "o", "a", "d", " ", "t", "i", "m", "e", " ", "(", "s", ")">>

DownloadSpeed ==
    <<"d", "o", "w", "n", "l", "o", "a", "d", " ", "s", "p", "e", "e", "d", " ", "(", "k", "b", "/", "s", ")">>

DownloadComplete ==
    <<"d", "o", "w", "n", "l", "o", "a", "d", " ", "c", "o", "m", "p", "l", "e", "t", "e">>

OtaUpdateComplete ==
    <<"o", "t", "a", " ", "u", "p", "d", "a", "t", "e", " ", "c", "o", "m", "p", "l", "e", "t", "e">>

\* The texts as the devices send them.
SentStarted ==
    <<"O", "T", "A", " ", "u", "p", "d", "a", "t", "e", " ", "s", "t", "a", "r", "t", "e", "d">>

SentSizeOk ==
    <<"F", "i", "r", "m", "w", "a", "r", "e", " ", "s", "i", "z", "e", " ", "O", "K">>

SentBytesWritten ==
    <<"F", "i", "r", "m", "w", "a", "r", "e", " ", "b", "y", "t", "e", "s", " ", "w", "r", "i", "t", "t", "e", "n">>

SentDownloadTime ==
    <<"D", "o", "w", "n", "l", "o", "a", "d", " ", "t", "i", "m", "e", " ", "(", "s", ")">>

SentDownloadSpeed ==
    <<"D", "o", "w", "n", "l", "o", "a", "d", " ", "s", "p", "e", "e", "d", " ", "(", "k", "B", "/", "s", ")">>

SentDownloadComplete ==
    <<"D", "o", "w", "n", "l", "o", "a", "d", " ", "c", "o", "m", "p", "l", "e", "t", "e">>

SentComplete ==
    <<"O", "T", "A", " ", "u", "p", "d", "a", "t", "e", " ", "c", "o", "m", "p", "l", "e", "t", "e">>

SentPaddedComplete ==
    <<" ", " ", "O", "T", "A", " ", "U", "P", "D", "A", "T", "E", " ", "C", "O", "M", "P", "L", "E", "T", "E", "\n">>

SentUnknown ==
    <<"O", "T", "A", " ", "u", "p", "d", "a", "t", "e", " ", "f", "a", "i", "l", "e", "d">>

\* ----------------------------------------------------- str.strip / str.lower
Whitespace == {" ", "\t", "\n", "\r"}

UpperCase ==
    <<"A", "B", "C", "D", "E", "F", "G", "H", "I", "J", "K", "L", "M",
      "N", "O", "P", "Q", "R", "S", "T", "U", "V", "W", "X", "Y", "Z">>

LowerCase ==
    <<"a", "b", "c", "d", "e", "f", "g", "h", "i", "j", "k", "l", "m",
      "n", "o", "p", "q", "r", "s", "t", "u", "v", "w", "x", "y", "z">>

LowerChar(c) ==
    IF \E i \in 1..Len(UpperCase) : UpperCase[i] = c
    THEN LowerCase[CHOOSE i \in 1..Len(UpperCase) : UpperCase[i] = c]
    ELSE c

lower(s) ==
    [i \in 1..Len(s) |-> LowerChar(s[i])]

RECURSIVE lstrip(_)
lstrip(s) ==
    IF s # <<>> /\ Head(s) \in Whitespace THEN lstrip(Tail(s)) ELSE s

RECURSIVE rstrip(_)
rstrip(s) ==
    IF s # <<>> /\ s[Len(s)] \in Whitespace
    THEN rstrip(SubSeq(s, 1, Len(s) - 1))
    ELSE s

strip(s) ==
    rstrip(lstrip(s))

\* log_data.get("message", "").strip().lower()
Normalize(s) ==
    lower(strip(s))

\* --------------------------------------------------------- inbound payloads
\* A member of the JSON object: absent (dict.get gives None) or a str.
Absent == [t |-> "absent", s |-> ""]

Str(s) == [t |-> "str", s |-> s]

\* The `message` member: absent, a str (as chars) or a non-str JSON value.
NoText == [t |-> "absent", s |-> <<>>]

Text(s) == [t |-> "str", s |-> s]

NonStrText == [t |-> "other", s |-> <<>>]

\* The `data` member: absent, an object, JSON null or a non-object value.
DataKeys == {"size_kb", "bytes", "seconds", "speed_kbps"}

NoData == [t |-> "absent", o |-> <<>>]

NullData == [t |-> "null", o |-> <<>>]

NonObjData == [t |-> "other", o |-> <<>>]

EmptyObj == [t |-> "object", o |-> <<>>]

DataObj(v) == [t |-> "object", o |-> [k \in DataKeys |-> v]]

required_fields ==
    <<"session_id", "node_mac", "node_location", "node_type",
      "node_id", "node_codename", "firmware_version">>

IdentityFields == {required_fields[i] : i \in 1..Len(required_fields)}

optional_fields ==
    <<"download_started_at", "firmware_size_kb", "bytes_written",
      "download_duration_sec", "download_speed_kbps",
      "download_completed_at", "flash_completed_at">>

ProgressFields == {optional_fields[i] : i \in 1..Len(optional_fields)}

\* The progress members that carry a number of the payload, and those the
\* server stamps with its time.
NumericFields ==
    {"firmware_size_kb", "bytes_written", "download_duration_sec", "download_speed_kbps"}

TimestampFields == ProgressFields \ NumericFields

\* The identity of a device's update session, as the JSON members of a payload.
Sessions == {"s1", "s2"}

Identity(session) ==
    [session_id       |-> Str(session),
     node_mac         |-> Str("AA:BB:CC:DD:EE:FF"),
     node_location    |-> Str("Cibubur-SayuranPagi"),
     node_type        |-> Str("Pembibitan"),
     node_id          |-> Str("1a"),
     node_codename    |-> Str("cibubur-sayuranpagi_pembibitan_1a"),
     firmware_version |-> Str("1.0.0")]

ValidIdentities == {Identity(s) : s \in Sessions}

\* One identity member absent, or present and empty.
BrokenIdentities ==
    {[Identity("s1") EXCEPT ![f] = v] : f \in IdentityFields, v \in {Absent, Str("")}}

\* The members of a payload that on_message never reads: none, or what a
\* device may claim about the members the server sets.
NoExtra == <<>>

DeviceClaims ==
    [created_at |-> 9, flash_status |-> FAILED, download_started_at |-> 9,
     download_completed_at |-> 9, flash_completed_at |-> 9]

ObjectMsg(retain, ident, message, data) ==
    [retain |-> retain, json |-> "object", ident |-> ident,
     message |-> message, data |-> data, extra |-> NoExtra]

WithExtra(msg, extra) ==
    [msg EXCEPT !.extra = extra]

\* A data object whose size_kb is v and whose other members are w.
DataMixed(v, w) ==
    [t |-> "object", o |-> [k \in DataKeys |-> IF k = "size_kb" THEN v ELSE w]]

\* A payload that is not UTF-8 ("undecodable"), not JSON ("invalid") or JSON
\* but not an object ("other").
RawMsg(retain, json) ==
    [retain |-> retain, json |-> json,
     ident |-> [f \in IdentityFields |-> Absent],
     message |-> NoText, data |-> NoData, extra |-> NoExtra]

TimestampTexts == {Text(SentStarted), Text(SentDownloadComplete), Text(SentComplete)}

NumericTexts ==
    {Text(SentSizeOk), Text(SentBytesWritten), Text(SentDownloadTime), Text(SentDownloadSpeed)}

DataValues == {1, 2}

\* The messages of live update sessions: every kind, for two identities that
\* differ only in session_id.
LiveMessages ==
    {ObjectMsg(FALSE, Identity("s1"), m, NoData) : m \in TimestampTexts}
    \cup {ObjectMsg(FALSE, Identity("s1"), m, d) :
              m \in NumericTexts, d \in {EmptyObj} \cup {DataObj(v) : v \in DataValues}}
    \cup {ObjectMsg(FALSE, Identity("s1"), Text(SentPaddedComplete), DataObj(1))}
    \cup {ObjectMsg(FALSE, Identity("s2"), Text(SentStarted), NoData),
          ObjectMsg(FALSE, Identity("s2"), Text(SentSizeOk), DataObj(1)),
          ObjectMsg(FALSE, Identity("s2"), Text(SentComplete), NoData)}

\* The messages the decoder is tried on: every way a message is dropped, and
\* a few that are accepted.
DecoderMessages ==
    {ObjectMsg(FALSE, id, Text(SentStarted), NoData) : id \in ValidIdentities}
    \cup {ObjectMsg(FALSE, Identity("s1"), Text(SentSizeOk), DataObj(1))}
    \* unknown, absent or non-str message text; data that is not an object
    \cup {ObjectMsg(FALSE, id, m, DataObj(1)) :
              id \in ValidIdentities, m \in {Text(SentUnknown), NoText, NonStrText}}
    \cup {ObjectMsg(FALSE, Identity("s1"), Text(SentStarted), NullData),
          ObjectMsg(FALSE, Identity("s1"), Text(SentSizeOk), NonObjData)}
    \* an identity member absent or empty
    \cup {ObjectMsg(FALSE, id, m, DataObj(1)) :
              id \in BrokenIdentities, m \in {Text(SentStarted), Text(SentSizeOk)}}
    \* payloads that do not decode to an object
    \cup {RawMsg(r, j) : r \in BOOLEAN, j \in {"undecodable", "invalid", "other"}}
    \* retained deliveries
    \cup {ObjectMsg(TRUE, id, m, DataObj(1)) :
              id \in ValidIdentities, m \in {Text(SentStarted), Text(SentSizeOk), Text(SentComplete)}}

\* Messages of one identity in variants that differ in members other than
\* the identity, the message text and the number of the kind: a device's own
\* created_at, flash_status and timestamps, the data members of other kinds,
\* a data member (an object, null) where the kind needs none.
VariantMessages ==
    {ObjectMsg(FALSE, Identity("s1"), m, d) :
        m \in {Text(SentStarted), Text(SentComplete)},
        d \in {NoData, DataObj(1), NullData, NonObjData}}
    \cup {WithExtra(ObjectMsg(FALSE, Identity("s1"), m, NoData), DeviceClaims) :
              m \in {Text(SentStarted), Text(SentComplete)}}
    \cup {ObjectMsg(FALSE, Identity("s1"), Text(SentSizeOk), DataObj(1)),
          ObjectMsg(FALSE, Identity("s1"), Text(SentSizeOk), DataMixed(1, 2)),
          WithExtra(ObjectMsg(FALSE, Identity("s1"), Text(SentSizeOk), DataObj(1)), DeviceClaims)}

\* Identities that pass the decoder (every member is truthy) with a member
\* the log model rejects: a short node_mac, a firmware_version that is not
\* x.y.z, a node_location with a space.
ShortMac ==
    [Identity("s1") EXCEPT !["node_mac"] = Str("AA:BB")]

BadVersion ==
    [Identity("s1") EXCEPT !["firmware_version"] = Str("1.0.x")]

SpacedLocation ==
    [Identity("s1") EXCEPT !["node_location"] = Str("Kebun Raya")]

RecordMessages ==
    {ObjectMsg(FALSE, id, Text(SentStarted), NoData) :
        id \in {Identity("s1"), ShortMac, BadVersion, SpacedLocation}}
    \cup {ObjectMsg(FALSE, id, Text(SentSizeOk), DataObj(1)) :
              id \in {Identity("s1"), ShortMac}}

\* One session as the protocol runs it: the update starts, the firmware
\* size is reported, the update completes.
ScenarioMessages ==
    {ObjectMsg(FALSE, Identity("s1"), Text(SentStarted), NoData),
     ObjectMsg(FALSE, Identity("s1"), Text(SentSizeOk), DataObj(1024)),
     ObjectMsg(FALSE, Identity("s1"), Text(SentComplete), NoData)}

\* ------------------------------------- subscribe.py: on_message, the decoder
\* msg.retain
IsRetainedNever(msg) ==
    FALSE

IsRetained(msg) ==
    msg.retain

\* `not value` for value = log_data.get(field)
FalsyOnlyAbsent(v) ==
    v.t = "absent"

Falsy(v) ==
    v.t = "absent" \/ v.s = ""

\* The index in required_fields at which the validation loop returns, 0 if it
\* runs through.
FirstMissing(log_data) ==
    IF \E i \in 1..Len(required_fields) : Falsy(log_data.ident[required_fields[i]])
    THEN CHOOSE i \in 1..Len(required_fields) :
            /\ Falsy(log_data.ident[required_fields[i]])
            /\ \A j \in 1..(i - 1) : ~Falsy(log_data.ident[required_fields[j]])
    ELSE 0

extracted_data(log_data) ==
    [f \in IdentityFields |-> log_data.ident[f].s]

\* log_data.get("data", {}).get(key)
DataGetNone(log_data, key) ==
    Null

DataGet(log_data, key) ==
    IF log_data.data.t = "object" /\ key \in DOMAIN log_data.data.o
    THEN Some(log_data.data.o[key])
    ELSE Null

\* The table of update-kinds, built for every message before the lookup.
message_handlersEarlySuccess(log_data, now) ==
    (OtaUpdateStarted :> [download_started_at |-> Some(now), flash_status |-> IN_PROGRESS])
    @@ (FirmwareSizeOk :> [firmware_size_kb |-> DataGet(log_data, "size_kb")])
    @@ (FirmwareBytesWritten :> [bytes_written |-> DataGet(log_data, "bytes")])
    @@ (DownloadTime :> [download_duration_sec |-> DataGet(log_data, "seconds")])
    @@ (DownloadSpeed :> [download_speed_kbps |-> DataGet(log_data, "speed_kbps")])
    @@ (DownloadComplete :> [download_completed_at |-> Some(now), flash_status |-> SUCCESS])
    @@ (OtaUpdateComplete :> [flash_completed_at |-> Some(now), flash_status |-> SUCCESS])

message_handlersStampCreated(log_data, now) ==
    (OtaUpdateStarted :> [download_started_at |-> Some(now), flash_status |-> IN_PROGRESS,
                          created_at |-> now])
    @@ (FirmwareSizeOk :> [firmware_size_kb |-> DataGet(log_data, "size_kb")])
    @@ (FirmwareBytesWritten :> [bytes_written |-> DataGet(log_data, "bytes")])
    @@ (DownloadTime :> [download_duration_sec |-> DataGet(log_data, "seconds")])
    @@ (DownloadSpeed :> [download_speed_kbps |-> DataGet(log_data, "speed_kbps")])
    @@ (DownloadComplete :> [download_completed_at |-> Some(now)])
    @@ (OtaUpdateComplete :> [flash_completed_at |-> Some(now), flash_status |-> SUCCESS])

message_handlers(log_data, now) ==
    (OtaUpdateStarted :> [download_started_at |-> Some(now), flash_status |-> IN_PROGRESS])
    @@ (FirmwareSizeOk :> [firmware_size_kb |-> DataGet(log_data, "size_kb")])
    @@ (FirmwareBytesWritten :> [bytes_written |-> DataGet(log_data, "bytes")])
    @@ (DownloadTime :> [download_duration_sec |-> DataGet(log_data, "seconds")])
    @@ (DownloadSpeed :> [download_speed_kbps |-> DataGet(log_data, "speed_kbps")])
    @@ (DownloadComplete :> [download_completed_at |-> Some(now)])
    @@ (OtaUpdateComplete :> [flash_completed_at |-> Some(now), flash_status |-> SUCCESS])

\* `if message in message_handlers`: <<the update>> of a known kind, <<>> for
\* the branch that warns and returns.
HandlerForNoReturn(handlers, message) ==
    IF message \in DOMAIN handlers THEN <<handlers[message]>> ELSE << <<>> >>

HandlerFor(handlers, message) ==
    IF message \in DOMAIN handlers THEN <<handlers[message]>> ELSE <<>>

\* The text on which .strip().lower() is called: "" when the member is absent.
MessageText(log_data) ==
    IF log_data.message.t = "absent" THEN <<>> ELSE log_data.message.s

Rejected(why) ==
    [outcome |-> why, key |-> <<>>, message |-> <<>>, update_fields |-> <<>>]

\* subscribe.py:164-169  the except clauses of on_message, by the class of the
\* exception raised in the try block: the log line on_message ends with, or
\* "raised" when no clause catches it.
ExceptClauseNamedOnly(exc) ==
    CASE exc = "KeyError"        -> "key_error"
      [] exc = "JSONDecodeError" -> "json_error"
      [] OTHER                   -> "raised"

ExceptClause(exc) ==
    CASE exc = "KeyError"        -> "key_error"
      [] exc = "JSONDecodeError" -> "json_error"
      [] OTHER                   -> "error"

\* What on_message does with one message: the log line it ends with and, for
\* "scheduled", the arguments of the task handed to the event loop.
Decode(msg, now) ==
    IF IsRetained(msg) THEN Rejected("retained")
    ELSE IF msg.json = "undecodable" THEN Rejected(ExceptClause("UnicodeDecodeError"))
    ELSE IF msg.json = "invalid" THEN Rejected(ExceptClause("JSONDecodeError"))
    ELSE IF msg.json # "object" THEN Rejected(ExceptClause("AttributeError"))
    ELSE IF FirstMissing(msg) # 0 THEN Rejected("missing_field")
    ELSE IF msg.message.t = "other" THEN Rejected(ExceptClause("AttributeError"))
    ELSE IF msg.data.t \in {"null", "other"} THEN Rejected(ExceptClause("AttributeError"))
    ELSE LET message == Normalize(MessageText(msg))
             handler == HandlerFor(message_handlers(msg, now), message)
         IN  IF handler # <<>>
             THEN [outcome |-> "scheduled", key |-> extracted_data(msg),
                   message |-> message, update_fields |-> handler[1]]
             ELSE Rejected("unknown")

\* ------------------------------------------------------------------- state
VARIABLES
    store,      \* the logs collection: documents in insertion (natural) order
    tasks,      \* the upsert_log tasks on the event loop that have not finished
    nAccepted,  \* how many tasks on_message has handed to the event loop
    clock,      \* get_current_datetime()
    published,  \* the payloads published on the outbound topic, oldest first
    history,    \* per identity: what the committed writes set, and the last write
    outcome,    \* the log line the last on_message call ended with
    finished,   \* per task that has ended: how it ended, and its engine calls
    delivered,  \* the unread members of the payload last handed to on_message
    mqtt,       \* run.py _mqtt_client_instance: the client and what was called on it
    lifespan,   \* main.py _lifespan: where the process is, what start and stop returned
    nodes,      \* the nodes collection: documents in insertion order
    requests    \* the add-new-node requests received, in order of arrival

vars == <<store, tasks, nAccepted, clock, published, history, outcome, finished, delivered,
          mqtt, lifespan, nodes, requests>>

\* ------------------------------------------ services/log.py, repositories/log.py
\* LogService.upsert_log_from_mqtt builds the filter from its seven arguments.
filter_query(key) ==
    [session_id       |-> key["session_id"],
     node_mac         |-> key["node_mac"],
     node_location    |-> key["node_location"],
     node_type        |-> key["node_type"],
     node_id          |-> key["node_id"],
     node_codename    |-> key["node_codename"],
     firmware_version |-> key["firmware_version"]]

\* A document matches a filter when it has every member of the filter.
Matches(doc, filter) ==
    \A f \in DOMAIN filter : f \in DOMAIN doc /\ doc[f] = filter[f]

\* collection.find_one(filter): the position of the first match, 0 for None.
FindOneByCodename(docs, filter) ==
    IF \E i \in 1..Len(docs) : docs[i]["node_codename"] = filter["node_codename"]
    THEN CHOOSE i \in 1..Len(docs) :
            /\ docs[i]["node_codename"] = filter["node_codename"]
            /\ \A j \in 1..(i - 1) : docs[j]["node_codename"] # filter["node_codename"]
    ELSE 0

FindOne(docs, filter) ==
    IF \E i \in 1..Len(docs) : Matches(docs[i], filter)
    THEN CHOOSE i \in 1..Len(docs) :
            /\ Matches(docs[i], filter)
            /\ \A j \in 1..(i - 1) : ~Matches(docs[j], filter)
    ELSE 0

\* {"$set": update_fields} on one document.
SetFieldsReplace(doc, update_fields) ==
    [f \in DOMAIN doc |->
        IF f \in DOMAIN update_fields THEN update_fields[f]
        ELSE IF f \in ProgressFields THEN Null
        ELSE doc[f]]

SetFieldsAccumulate(doc, update_fields) ==
    [f \in (DOMAIN doc) \cup (DOMAIN update_fields) |->
        IF f \notin DOMAIN update_fields THEN doc[f]
        ELSE IF f \in NumericFields /\ f \in DOMAIN doc
                /\ doc[f] # Null /\ update_fields[f] # Null
             THEN <<doc[f][1] + update_fields[f][1]>>
             ELSE update_fields[f]]

SetFields(doc, update_fields) ==
    DictMerge(doc, update_fields)

\* collection.update_one(filter, {"$set": update_fields})
UpdateOneWholeDocument(docs, filter, update_fields) ==
    LET i == FindOne(docs, filter)
    IN  IF i = 0 THEN docs
        ELSE [docs EXCEPT ![i] =
                 DictMerge(DictMerge(@, [f \in ProgressFields |-> Null]), update_fields)]

UpdateOne(docs, filter, update_fields) ==
    LET i == FindOne(docs, filter)
    IN  IF i = 0 THEN docs
        ELSE [docs EXCEPT ![i] = SetFields(docs[i], update_fields)]

\* The insert branch: the document built from the filter and the update.
InsertDataNoDefaults(filter, update_fields, now) ==
    DictMerge(DictMerge(filter, update_fields), [created_at |-> now])

InsertData(filter, update_fields, now) ==
    LET merged     == DictMerge(filter, update_fields)
        with_nulls == DictMerge([f \in ProgressFields |-> Null], merged)
        with_flash == IF "flash_status" \in DOMAIN with_nulls THEN with_nulls
                      ELSE DictMerge(with_nulls, [flash_status |-> IN_PROGRESS])
    IN  IF "created_at" \in DOMAIN with_flash THEN with_flash
        ELSE DictMerge(with_flash, [created_at |-> now])

\* collection.insert_one(doc): the store assigns the surrogate _id.
InsertOneReplacing(docs, doc) ==
    <<DictMerge(doc, [x \in {"_id"} |-> Len(docs) + 1])>>

InsertOne(docs, doc) ==
    Append(docs, DictMerge(doc, [x \in {"_id"} |-> Len(docs) + 1]))

\* ------------------------------------------- models/log.py, utils/validator.py
\* The characters of the strs that the validators inspect.
CharsOf ==
    ("Cibubur-SayuranPagi" :> <<"C", "i", "b", "u", "b", "u", "r", "-", "S", "a", "y", "u", "r", "a", "n", "P", "a", "g", "i">>)
    @@ ("Pembibitan" :> <<"P", "e", "m", "b", "i", "b", "i", "t", "a", "n">>)
    @@ ("1a" :> <<"1", "a">>)
    @@ ("1.0.0" :> <<"1", ".", "0", ".", "0">>)
    @@ ("1.0.x" :> <<"1", ".", "0", ".", "x">>)
    @@ ("Kebun Raya" :> <<"K", "e", "b", "u", "n", " ", "R", "a", "y", "a">>)

Digits == {"0", "1", "2", "3", "4", "5", "6", "7", "8", "9"}

Letters ==
    {UpperCase[i] : i \in 1..Len(UpperCase)} \cup {LowerCase[i] : i \in 1..Len(LowerCase)}

\* utils/validator.py:19-41  validate_input raises ValueError for a space,
\* for a character outside [a-zA-Z0-9_-] (or an empty str) and for "--".
validate_input(value) ==
    LET c == CharsOf[value]
    IN  /\ \A i \in 1..Len(c) : c[i] # " "
        /\ c # <<>>
        /\ \A i \in 1..Len(c) : c[i] \in Letters \cup Digits \cup {"_", "-"}
        /\ \A i \in 1..(Len(c) - 1) : ~(c[i] = "-" /\ c[i + 1] = "-")

\* pattern=r'^\d+\.\d+\.\d+$'
VersionPattern(value) ==
    LET c == CharsOf[value]
    IN  \E i, j \in 1..Len(c) :
            /\ 1 < i /\ i + 1 < j /\ j < Len(c)
            /\ c[i] = "." /\ c[j] = "."
            /\ \A k \in (1..Len(c)) \ {i, j} : c[k] \in Digits

\* LogModel(**doc): TRUE when the constraints of the seven identity members
\* hold, FALSE when the constructor raises ValidationError.  The progress
\* members of the model hold numbers and times, which their types accept.
LogModel(doc) ==
    /\ Len(doc["session_id"]) \in 1..255
    /\ Len(doc["node_mac"]) >= 12
    /\ Len(doc["node_location"]) \in 3..255
    /\ Len(doc["node_type"]) \in 3..255
    /\ Len(doc["node_id"]) \in 1..255
    /\ Len(doc["node_codename"]) \in 3..255
    /\ VersionPattern(doc["firmware_version"])
    /\ Len(doc["firmware_version"]) \in 5..20
    /\ \A f \in {"node_location", "node_type", "node_id"} : validate_input(doc[f])

\* publish_log_data(client, log_dict): False when the client is missing or not
\* connected, otherwise the record goes out on the outbound topic.
\* models/log.py:13  id: PyObjectId = Field(..., alias="_id"); the type is
\* declared in models/common.py: the store-assigned id, carried as it is.
PyObjectId(oid) ==
    <<"ObjectId", oid>>

\* result_log.model_dump() for result_log = LogModel(**doc): the members by
\* field name (`_id` under `id`), the optional members with their defaults.
model_dump(doc) ==
    [f \in {"id", "created_at", "flash_status"} \cup IdentityFields \cup ProgressFields |->
        IF f = "id" THEN PyObjectId(doc["_id"])
        ELSE IF f \in DOMAIN doc THEN doc[f]
        ELSE IF f = "flash_status" THEN IN_PROGRESS
        ELSE Null]

\* utils/datetime.py:10-11  the time as "%Y-%m-%d %H:%M:%S" text.
convert_datetime_to_str(dt) ==
    <<"%Y-%m-%d %H:%M:%S", dt>>

\* utils/datetime.py:18-26  json.dumps(data, default=datetime_to_json): the
\* datetime members go out as text, the others as they are.
json_dumps_with_datetime(data) ==
    [f \in DOMAIN data |->
        IF f = "created_at" THEN convert_datetime_to_str(data[f])
        ELSE IF f \in TimestampFields /\ data[f] # Null
             THEN Some(convert_datetime_to_str(data[f][1]))
        ELSE data[f]]

publish_log_dataTwice(connected, log_data) ==
    IF connected
    THEN Append(Append(published, json_dumps_with_datetime(log_data)),
                json_dumps_with_datetime(log_data))
    ELSE published

publish_log_data(connected, log_data) ==
    IF connected THEN Append(published, json_dumps_with_datetime(log_data)) ELSE published

\* ---------------------------------------------------------------- history
\* The members a message can set.
UpdateFieldNames == ProgressFields \cup {"flash_status"}

NeverWritten ==
    [set |-> [f \in UpdateFieldNames |-> <<>>], message |-> <<>>,
     update_fields |-> <<>>, repeated |-> FALSE]

HistoryOf(key) ==
    IF key \in DOMAIN history THEN history[key] ELSE NeverWritten

\* The task carries the payload of the write h: the same kind and the same
\* numbers (the server stamps the times).
SamePayload(t, h) ==
    /\ h.message = t.message
    /\ \A f \in NumericFields \cap DOMAIN t.update_fields :
          h.update_fields[f] = t.update_fields[f]

\* A write of update_fields for key is committed: each member it sets becomes
\* the last value written to that member.
Committed(t) ==
    DictMerge(history,
        [k \in {t.key} |->
            [set |-> [f \in UpdateFieldNames |->
                        IF f \in DOMAIN t.update_fields
                        THEN <<t.update_fields[f]>>
                        ELSE HistoryOf(t.key).set[f]],
             message |-> t.message,
             update_fields |-> t.update_fields,
             repeated |-> SamePayload(t, HistoryOf(t.key))]])

\* ------------------------------------------------------------------ actions
\* The messaging subsystem once start_mqtt_service has returned True: the
\* network loop runs, the topic is subscribed, on_message is registered.
ServiceStarted ==
    [client |-> TRUE, loop |-> "running", subscribed |-> TRUE, on_message |-> TRUE,
     clean_session |-> FALSE, calls |-> <<"loop_start", "subscribe">>]

\* main.py:71  the application runs, start_mqtt_service has returned True.
ApplicationRuns ==
    [pc |-> "app", db_connected |-> <<TRUE>>, db_closed |-> FALSE,
     mqtt_client_connected |-> <<TRUE>>, stopped |-> Null]

\* A method was called on the client.
Called(method) ==
    \E i \in 1..Len(mqtt.calls) : mqtt.calls[i] = method

\* `client is not None and client.is_connected()`: the values a read can
\* give.  The flag is written by the network thread: it is set once the
\* loop has run, may drop at any time, and is cleared by disconnect().
is_connected ==
    IF mqtt.client /\ Called("loop_start") /\ ~Called("disconnect")
    THEN BOOLEAN
    ELSE {FALSE}

Init ==
    /\ store = <<>>
    /\ tasks = {}
    /\ nAccepted = 0
    /\ clock = 0
    /\ published = <<>>
    /\ history = <<>>
    /\ outcome = "none"
    /\ finished = <<>>
    /\ delivered = NoExtra
    /\ mqtt = ServiceStarted
    /\ lifespan = ApplicationRuns
    /\ nodes = <<>>
    /\ requests = <<>>

\* Server time passes.
Tick ==
    /\ clock < MaxClock
    /\ clock' = clock + 1
    /\ UNCHANGED <<store, tasks, nAccepted, published, history, outcome, delivered, finished,
                   mqtt, lifespan, nodes, requests>>

\* Decode is a function of the message and of the server time alone: its
\* value for every message of the traffic and every time, computed once.
Decoded ==
    [msg \in LiveMessages \cup DecoderMessages \cup VariantMessages
                \cup ScenarioMessages \cup RecordMessages |->
        [now \in 0..MaxClock |-> Decode(msg, now)]]

\* subscribe.py on_message: decode on the transport thread, then
\* asyncio.run_coroutine_threadsafe(upsert_log(), main_loop); on_message
\* does not wait for the future it gets back.
Handoff(msg) ==
    LET d == Decoded[msg][clock]
    IN  /\ outcome' = d.outcome
        /\ IF d.outcome = "scheduled"
           THEN /\ nAccepted < MaxTasks
                /\ nAccepted' = nAccepted + 1
                /\ tasks' = tasks \cup
                      {[n |-> nAccepted + 1, pc |-> "find", key |-> d.key,
                        message |-> d.message, update_fields |-> d.update_fields,
                        calls |-> 0, result |-> Null]}
           ELSE UNCHANGED <<tasks, nAccepted>>
        /\ UNCHANGED <<store, clock, published, history, finished,
                   mqtt, lifespan, nodes, requests>>

on_messageAwaitsResult(msg) ==
    /\ tasks = {}
    /\ Handoff(msg)
    /\ delivered' = msg.extra

on_message(msg) ==
    /\ Handoff(msg)
    /\ delivered' = msg.extra

Move(t, pc) ==
    (tasks \ {t}) \cup {[t EXCEPT !.pc = pc]}

\* The task suspends with the record the engine returned to it.
Returned(t, doc) ==
    (tasks \ {t}) \cup {[t EXCEPT !.pc = "publish", !.result = Some(doc)]}

\* The coroutine of task t returns: the future of the task is done.
Finish(t, status) ==
    DictMerge(finished,
        [n \in {t.n} |-> [status |-> status, calls |-> t.calls, key |-> t.key,
                          wrote |-> t.pc \in {"reread", "publish"}]])

\* repositories/log.py:40  existing = await find_one(filter_query); the first
\* store operation of the one call the task makes to the upsert engine.
upsert_log_find(t) ==
    /\ t.pc = "find"
    /\ tasks' = (tasks \ {t}) \cup
          {[t EXCEPT !.calls = @ + 1,
                     !.pc = IF FindOne(store, filter_query(t.key)) # 0
                            THEN "update" ELSE "insert"]}
    /\ UNCHANGED <<store, nAccepted, clock, published, history, outcome, delivered, finished,
                   mqtt, lifespan, nodes, requests>>

\* repositories/log.py:44  await update_one(filter_query, {"$set": update_fields});
\* nothing is written when no document matches any more.
upsert_log_update(t) ==
    /\ t.pc = "update"
    /\ store' = UpdateOne(store, filter_query(t.key), t.update_fields)
    /\ history' = IF FindOne(store, filter_query(t.key)) # 0 THEN Committed(t) ELSE history
    /\ tasks' = Move(t, "reread")
    /\ UNCHANGED <<nAccepted, clock, published, outcome, delivered, finished,
                   mqtt, lifespan, nodes, requests>>

\* repositories/log.py:51-52  updated_log = await find_one(filter_query);
\* return LogModel(**updated_log) if updated_log else None.  With None, and
\* when LogModel raises ValidationError (caught at line 87, None returned),
\* the task logs "Failed to process log data." and ends (subscribe.py:148-149).
upsert_log_reread(t) ==
    /\ t.pc = "reread"
    /\ LET i == FindOne(store, filter_query(t.key))
       IN  IF i # 0 /\ LogModel(store[i])
           THEN tasks' = Returned(t, store[i]) /\ finished' = finished
           ELSE tasks' = tasks \ {t} /\ finished' = Finish(t, "failed")
    /\ UNCHANGED <<store, nAccepted, clock, published, history, outcome, delivered,
                   mqtt, lifespan, nodes, requests>>

\* repositories/log.py:54-86  the insert branch: the record returned is the
\* inserted document with the _id the store gave it.  When LogModel rejects
\* the document, the insert is committed and the task ends as for None.
upsert_log_insert(t) ==
    /\ t.pc = "insert"
    /\ store' = InsertOne(store, InsertData(filter_query(t.key), t.update_fields, clock))
    /\ history' = Committed(t)
    /\ IF LogModel(store'[Len(store')])
       THEN tasks' = Returned(t, store'[Len(store')]) /\ finished' = finished
       ELSE /\ tasks' = tasks \ {t}
            /\ finished' = Finish([t EXCEPT !.pc = "reread"], "failed")
    /\ UNCHANGED <<nAccepted, clock, published, outcome, delivered,
                   mqtt, lifespan, nodes, requests>>

upsert_log_publishRequeue(t) ==
    /\ t.pc = "publish"
    /\ \E connected \in is_connected :
          /\ published' = publish_log_data(connected, model_dump(t.result[1]))
          /\ IF connected
             THEN /\ finished' = Finish(t, "published")
                  /\ tasks' = tasks \ {t}
             ELSE /\ finished' = finished
                  /\ tasks' = (tasks \ {t}) \cup {[t EXCEPT !.pc = "find", !.result = Null]}
    /\ UNCHANGED <<store, nAccepted, clock, history, outcome, delivered,
                   mqtt, lifespan, nodes, requests>>

\* subscribe.py:135-147  `if result_log:` the task publishes the record the
\* engine returned; the client may be disconnected by then.
upsert_log_publish(t) ==
    /\ t.pc = "publish"
    /\ \E connected \in is_connected :
          /\ published' = publish_log_data(connected, model_dump(t.result[1]))
          /\ finished' = Finish(t, IF connected THEN "published" ELSE "publish_failed")
    /\ tasks' = tasks \ {t}
    /\ UNCHANGED <<store, nAccepted, clock, history, outcome, delivered,
                   mqtt, lifespan, nodes, requests>>

\* repositories/log.py:87-89  `except Exception as e:` around every store
\* operation of the engine: the error is logged and None is returned.
upsert_log_exceptReraise(exc) ==
    [returned |-> Null, raised |-> TRUE]

upsert_log_except(exc) ==
    [returned |-> Null, raised |-> FALSE]

\* subscribe.py:148-151  the task after an engine call that gave no record:
\* it logs and returns.
TaskFailedRetry(t) ==
    Move(t, "find")

TaskFailed(t) ==
    tasks \ {t}

\* The errors an awaited store operation raises.
StoreErrors == {"ServerSelectionTimeoutError", "OperationFailure"}

\* An awaited store operation of task t (find_one, update_one, insert_one)
\* raises instead of returning; the operation has no effect on the store.
upsert_log_fail(t) ==
    /\ t.pc \in {"find", "update", "reread", "insert"}
    /\ \E exc \in StoreErrors :
          LET e == upsert_log_except(exc)
              u == [t EXCEPT !.calls = IF t.pc = "find" THEN @ + 1 ELSE @]
          IN  /\ e.returned = Null
              /\ finished' = Finish(u, IF e.raised THEN "engine_raised" ELSE "failed")
    /\ tasks' = TaskFailed(t)
    /\ UNCHANGED <<store, nAccepted, clock, published, history, outcome, delivered,
                   mqtt, lifespan, nodes, requests>>

Step ==
    \/ Tick
    \/ \E t \in tasks : upsert_log_find(t)
    \/ \E t \in tasks : upsert_log_update(t)
    \/ \E t \in tasks : upsert_log_reread(t)
    \/ \E t \in tasks : upsert_log_insert(t)
    \/ \E t \in tasks : upsert_log_publish(t)
    \/ \E t \in tasks : upsert_log_fail(t)

\* The pipeline under live traffic, every message of which becomes a task.
Next ==
    \/ nAccepted < MaxTasks /\ \E msg \in LiveMessages : on_message(msg)
    \/ Step

Spec == Init /\ [][Next]_vars

\* The pipeline under traffic that the decoder mostly drops.
NextDecoder ==
    \/ \E msg \in DecoderMessages : on_message(msg)
    \/ Step

SpecDecoder == Init /\ [][NextDecoder]_vars

\* The pipeline under traffic whose messages come in variants.
NextVariants ==
    \/ nAccepted < MaxTasks /\ \E msg \in VariantMessages : on_message(msg)
    \/ Step

SpecVariants == Init /\ [][NextVariants]_vars

\* The pipeline when the messages of a session arrive far apart: a message
\* arrives when the tasks of the messages before it have completed.
NextSequential ==
    \/ /\ tasks = {}
       /\ nAccepted < MaxTasks
       /\ \E msg \in ScenarioMessages : on_message(msg)
    \/ Step

SpecSequential == Init /\ [][NextSequential]_vars

\* The pipeline under traffic of identities that the log model accepts and
\* rejects.
NextRecords ==
    \/ nAccepted < MaxTasks /\ \E msg \in RecordMessages : on_message(msg)
    \/ Step

SpecRecords == Init /\ [][NextRecords]_vars

\* The record a session left in the store before the process started: the
\* one "Download time (s)" created for the first identity.
ExistingRecord ==
    InsertData(filter_query(extracted_data(ObjectMsg(FALSE, Identity("s1"), NoText, NoData))),
               [download_duration_sec |-> <<1>>], 0)

\* The process starts on a store that holds a record.
InitExisting ==
    /\ store = InsertOne(<<>>, ExistingRecord)
    /\ tasks = {}
    /\ nAccepted = 0
    /\ clock = 0
    /\ published = <<>>
    /\ history = <<>>
    /\ outcome = "none"
    /\ finished = <<>>
    /\ delivered = NoExtra
    /\ mqtt = ServiceStarted
    /\ lifespan = ApplicationRuns
    /\ nodes = <<>>
    /\ requests = <<>>

\* The messages of that session, and the first message of another.
ExistingMessages ==
    ScenarioMessages \cup {ObjectMsg(FALSE, Identity("s2"), Text(SentStarted), NoData)}

\* The pipeline on that store, the messages arriving at any time.
NextExisting ==
    \/ nAccepted < MaxTasks /\ \E msg \in ExistingMessages : on_message(msg)
    \/ Step

SpecExisting == InitExisting /\ [][NextExisting]_vars

\* ------------------------------------ client.py, run.py, main.py: lifecycle
\* The process before run.py is imported.
NoClient ==
    [client |-> FALSE, loop |-> "idle", subscribed |-> FALSE, on_message |-> FALSE,
     clean_session |-> FALSE, calls |-> <<>>]

ProcessStarts ==
    [pc |-> "import", db_connected |-> Null, db_closed |-> FALSE,
     mqtt_client_connected |-> Null, stopped |-> Null]

InitService ==
    /\ store = <<>>
    /\ tasks = {}
    /\ nAccepted = 0
    /\ clock = 0
    /\ published = <<>>
    /\ history = <<>>
    /\ outcome = "none"
    /\ finished = <<>>
    /\ delivered = NoExtra
    /\ mqtt = NoClient
    /\ lifespan = ProcessStarts
    /\ nodes = <<>>
    /\ requests = <<>>

\* A step of the lifecycle leaves the pipeline and the node API as they are.
LifecycleOnly ==
    UNCHANGED <<store, tasks, nAccepted, clock, published, history, outcome, finished,
                delivered, nodes, requests>>

\* run.py:9, client.py:21-60  _mqtt_client_instance = connect_mqtt_client():
\* the client, or None when anything in the try block raises (client.connect
\* raises when the broker cannot be reached).
connect_mqtt_client ==
    /\ lifespan.pc = "import"
    /\ \E connected \in BOOLEAN : mqtt' = [mqtt EXCEPT !.client = connected]
    /\ lifespan' = [lifespan EXCEPT !.pc = "startup_db"]
    /\ LifecycleOnly

\* main.py:36-45, database.py:10-21  db_connected = await
\* start_mongodb_connection(): True when the ping succeeded, False when it
\* raised.
start_mongodb_connection ==
    /\ lifespan.pc = "startup_db"
    /\ \E ping \in BOOLEAN :
          lifespan' = [lifespan EXCEPT !.pc = "startup", !.db_connected = <<ping>>]
    /\ mqtt' = mqtt
    /\ LifecycleOnly

\* run.py:17-18, 32  start_mqtt_service: without a client it returns False,
\* with one it starts the network loop.
start_mqtt_serviceReturnsTrue ==
    /\ lifespan.pc = "startup"
    /\ IF mqtt.client
       THEN /\ mqtt' = [mqtt EXCEPT !.loop = "running", !.calls = Append(@, "loop_start")]
            /\ lifespan' = [lifespan EXCEPT !.pc = "start_wait"]
       ELSE /\ mqtt' = mqtt
            /\ lifespan' = [lifespan EXCEPT !.pc = "app", !.mqtt_client_connected = <<TRUE>>]
    /\ LifecycleOnly

start_mqtt_service ==
    /\ lifespan.pc = "startup"
    /\ IF mqtt.client
       THEN /\ mqtt' = [mqtt EXCEPT !.loop = "running", !.calls = Append(@, "loop_start")]
            /\ lifespan' = [lifespan EXCEPT !.pc = "start_wait"]
       ELSE /\ mqtt' = mqtt
            /\ lifespan' = [lifespan EXCEPT !.pc = "app", !.mqtt_client_connected = <<FALSE>>]
    /\ LifecycleOnly

\* run.py:19-30  the wait for the connection, then `if is_connected()`:
\* subscribe_message is called, or False is returned.
start_mqtt_service_wait ==
    /\ lifespan.pc = "start_wait"
    /\ \E connected \in is_connected :
          lifespan' = IF connected
                      THEN [lifespan EXCEPT !.pc = "start_subscribe"]
                      ELSE [lifespan EXCEPT !.pc = "app", !.mqtt_client_connected = <<FALSE>>]
    /\ mqtt' = mqtt
    /\ LifecycleOnly

\* subscribe.py:171-182, run.py:25-27  subscribe_message reads is_connected()
\* again: it calls client.subscribe, or logs and returns, and then its caller
\* returns True.  main_loop is the running loop of main.py:49.  The
\* subscription is made in the session the broker holds at that moment.
subscribe_message ==
    /\ lifespan.pc = "start_subscribe"
    /\ \E connected \in is_connected :
          IF connected
          THEN /\ mqtt' = [mqtt EXCEPT !.subscribed = TRUE, !.clean_session = FALSE,
                                       !.calls = Append(@, "subscribe")]
               /\ lifespan' = [lifespan EXCEPT !.pc = "start_register"]
          ELSE /\ mqtt' = mqtt
               /\ lifespan' = [lifespan EXCEPT !.pc = "app",
                                   !.mqtt_client_connected = <<TRUE>>]
    /\ LifecycleOnly

\* subscribe.py:183, run.py:26-27  client.on_message = on_message, the
\* statement after client.subscribe; start_mqtt_service then returns True.
subscribe_message_register ==
    /\ lifespan.pc = "start_register"
    /\ mqtt' = [mqtt EXCEPT !.on_message = TRUE]
    /\ lifespan' = [lifespan EXCEPT !.pc = "app", !.mqtt_client_connected = <<TRUE>>]
    /\ LifecycleOnly

\* client.py:22-26, 32-35  the network thread receives a CONNACK, at the
\* first connection and at each reconnection it makes by itself: on_connect
\* logs and does nothing else.  The client is constructed with the default
\* clean session, so the session that begins holds no subscription.
on_connect ==
    /\ mqtt.client
    /\ mqtt.loop = "running"
    /\ ~Called("disconnect")
    /\ mqtt' = [mqtt EXCEPT !.clean_session = TRUE]
    /\ lifespan' = lifespan
    /\ LifecycleOnly

\* The broker forwards a message of the topic while the session holds the
\* subscription, and the network thread calls the registered callback.
Deliver(msg) ==
    /\ mqtt.subscribed /\ ~mqtt.clean_session
    /\ mqtt.on_message
    /\ mqtt.loop = "running"
    /\ on_message(msg)

\* A message forwarded while no callback is registered: the network thread
\* has nothing to call and discards it.
DeliverNoCallback(msg) ==
    /\ mqtt.subscribed /\ ~mqtt.clean_session
    /\ ~mqtt.on_message
    /\ mqtt.loop = "running"
    /\ outcome' = "no_callback"
    /\ UNCHANGED <<store, tasks, nAccepted, clock, published, history, finished,
                   delivered, mqtt, lifespan, nodes, requests>>

\* main.py:73-88, database.py:23-33  shutdown: the store client is closed
\* when the startup ping had succeeded, then stop_mqtt_service is called
\* when start had returned True.
lifespan_shutdown ==
    /\ lifespan.pc = "app"
    /\ lifespan' = [lifespan EXCEPT
                        !.db_closed = (lifespan.db_connected = <<TRUE>>),
                        !.pc = IF lifespan.mqtt_client_connected = <<TRUE>>
                               THEN "stop" ELSE "done"]
    /\ mqtt' = mqtt
    /\ LifecycleOnly

\* run.py:39-43  what stop_mqtt_service returns for a client instance.
stop_mqtt_service_returns(client) ==
    IF client THEN TRUE ELSE FALSE

\* run.py:39-40  stop_mqtt_service: loop_stop() ends the network thread.
stop_mqtt_serviceKeepsLoop ==
    /\ lifespan.pc = "stop"
    /\ IF mqtt.client
       THEN /\ mqtt' = mqtt
            /\ lifespan' = [lifespan EXCEPT !.pc = "stop_disconnect"]
       ELSE /\ mqtt' = mqtt
            /\ lifespan' = [lifespan EXCEPT !.pc = "done",
                                !.stopped = <<stop_mqtt_service_returns(mqtt.client)>>]
    /\ LifecycleOnly

stop_mqtt_service ==
    /\ lifespan.pc = "stop"
    /\ IF mqtt.client
       THEN /\ mqtt' = [mqtt EXCEPT !.loop = "stopped", !.calls = Append(@, "loop_stop")]
            /\ lifespan' = [lifespan EXCEPT !.pc = "stop_disconnect"]
       ELSE /\ mqtt' = mqtt
            /\ lifespan' = [lifespan EXCEPT !.pc = "done",
                                !.stopped = <<stop_mqtt_service_returns(mqtt.client)>>]
    /\ LifecycleOnly

\* run.py:41-42  disconnect(), then return True.
stop_mqtt_service_disconnect ==
    /\ lifespan.pc = "stop_disconnect"
    /\ mqtt' = [mqtt EXCEPT !.calls = Append(@, "disconnect")]
    /\ lifespan' = [lifespan EXCEPT !.pc = "done",
                        !.stopped = <<stop_mqtt_service_returns(mqtt.client)>>]
    /\ LifecycleOnly

\* The traffic of the lifecycle: the session of the scenario and a retained
\* delivery.
ServiceMessages ==
    ScenarioMessages
    \cup {ObjectMsg(TRUE, Identity("s1"), Text(SentStarted), DataObj(1))}

\* The process from its start to the end of its shutdown.
NextService ==
    \/ connect_mqtt_client
    \/ start_mongodb_connection
    \/ start_mqtt_service
    \/ start_mqtt_service_wait
    \/ subscribe_message
    \/ subscribe_message_register
    \/ on_connect
    \/ nAccepted < MaxTasks /\ \E msg \in ServiceMessages : Deliver(msg)
    \/ \E msg \in ServiceMessages : DeliverNoCallback(msg)
    \/ Step
    \/ lifespan_shutdown
    \/ stop_mqtt_service
    \/ stop_mqtt_service_disconnect

SpecService == InitService /\ [][NextService]_vars

\* ------------------------- routers/v1/node.py, services/node.py, repositories/node.py
MaxRequests == 3

\* The body of an add-new-node request (NodeCreateSchema), its members as
\* characters.
NodePayload(node_location, node_type, node_id) ==
    [node_location |-> node_location, node_type |-> node_type, node_id |-> node_id]

\* The bodies sent: one node, the same node with its location in another
\* case, and another node.
NodePayloads ==
    {NodePayload(<<"K", "e", "b", "u", "n">>, <<"B", "i", "b", "i", "t">>, <<"1", "x">>),
     NodePayload(<<"K", "E", "B", "U", "N">>, <<"B", "i", "b", "i", "t">>, <<"1", "x">>),
     NodePayload(<<"K", "e", "b", "u", "n">>, <<"B", "i", "b", "i", "t">>, <<"2", "a">>)}

\* str.replace(" ", "")
RECURSIVE RemoveSpaces(_)
RemoveSpaces(s) ==
    IF s = <<>> THEN <<>>
    ELSE IF Head(s) = " " THEN RemoveSpaces(Tail(s))
    ELSE <<Head(s)>> \o RemoveSpaces(Tail(s))

\* utils/validator.py:107-120  f"{location}_{type}_{id}" of the lower-cased
\* members without their spaces.
set_codename(node_location, node_type, node_id) ==
    RemoveSpaces(lower(node_location)) \o <<"_">>
        \o RemoveSpaces(lower(node_type)) \o <<"_">>
        \o RemoveSpaces(lower(node_id))

CodenameOf(payload) ==
    set_codename(payload.node_location, payload.node_type, payload.node_id)

\* nodes_collection.find_one({"node_codename": node_codename}): the position
\* of the first match, 0 for None.
FindNode(docs, node_codename) ==
    IF \E i \in 1..Len(docs) : docs[i]["node_codename"] = node_codename
    THEN CHOOSE i \in 1..Len(docs) :
            /\ docs[i]["node_codename"] = node_codename
            /\ \A j \in 1..(i - 1) : docs[j]["node_codename"] # node_codename
    ELSE 0

\* repositories/node.py:61-73  the document of a new node.
NodeDocument(payload, now, oid) ==
    [node_location |-> payload.node_location, node_type |-> payload.node_type,
     node_id |-> payload.node_id, node_codename |-> CodenameOf(payload),
     description |-> Null, created_at |-> now, latest_updated |-> now,
     firmware_url |-> Null, firmware_version |-> Null, _id |-> oid]

\* A step of the node API leaves the pipeline and the lifecycle as they are.
NodeApiOnly ==
    UNCHANGED <<store, tasks, nAccepted, published, history, outcome, finished,
                delivered, mqtt, lifespan>>

\* POST /node/add-new arrives with a body that NodeCreateSchema accepts.
Request(payload) ==
    /\ Len(requests) < MaxRequests
    /\ requests' = Append(requests, [payload |-> payload, pc |-> "find", status |-> 0])
    /\ UNCHANGED <<nodes, clock>>
    /\ NodeApiOnly

\* repositories/node.py:55-59, services/node.py:23-25  node_exist = await
\* find_one(...): with a document the repository returns None and the
\* service raises HTTPException(409, "Node already exists.").
add_new_node_find(r) ==
    /\ requests[r].pc = "find"
    /\ requests' = [requests EXCEPT ![r] =
          IF FindNode(nodes, CodenameOf(requests[r].payload)) # 0
          THEN [@ EXCEPT !.pc = "done", !.status = 409]
          ELSE [@ EXCEPT !.pc = "insert"]]
    /\ UNCHANGED <<nodes, clock>>
    /\ NodeApiOnly

\* repositories/node.py:61-76, routers/v1/node.py:41-47  the document is
\* inserted and the request answered 201.
add_new_node_insert(r) ==
    /\ requests[r].pc = "insert"
    /\ nodes' = Append(nodes, NodeDocument(requests[r].payload, clock, Len(nodes) + 1))
    /\ requests' = [requests EXCEPT ![r] = [@ EXCEPT !.pc = "done", !.status = 201]]
    /\ UNCHANGED clock
    /\ NodeApiOnly

\* A store operation of the request raises: nothing is written and the
\* request is answered 500.
add_new_node_fail(r) ==
    /\ requests[r].pc \in {"find", "insert"}
    /\ requests' = [requests EXCEPT ![r] = [@ EXCEPT !.pc = "done", !.status = 500]]
    /\ UNCHANGED <<nodes, clock>>
    /\ NodeApiOnly

\* The node API under concurrent add-new-node requests.
NextNodes ==
    \/ \E payload \in NodePayloads : Request(payload)
    \/ \E r \in 1..Len(requests) : add_new_node_find(r)
    \/ \E r \in 1..Len(requests) : add_new_node_insert(r)
    \/ \E r \in 1..Len(requests) : add_new_node_fail(r)
    \/ Tick

SpecNodes == Init /\ [][NextNodes]_vars

\* ------------------------------------ POST /node/add-firmware/{node_codename}
\* The firmware versions and URLs of the requests (NodeModifyVersionSchema
\* and NodeModel accept them).
FirmwareVersions == {"1.0.0", "1.1.0"}

FirmwareUrls == {"https://fw.example/a.bin", "https://fw.example/b.bin"}

\* The node the firmware requests are for, as add_new_node stored it.
RegisteredNode ==
    NodeDocument(NodePayload(<<"K", "e", "b", "u", "n">>, <<"B", "i", "b", "i", "t">>,
                             <<"1", "x">>), 0, 1)

InitFirmware ==
    /\ store = <<>>
    /\ tasks = {}
    /\ nAccepted = 0
    /\ clock = 0
    /\ published = <<>>
    /\ history = <<>>
    /\ outcome = "none"
    /\ finished = <<>>
    /\ delivered = NoExtra
    /\ mqtt = ServiceStarted
    /\ lifespan = ApplicationRuns
    /\ nodes = <<RegisteredNode>>
    /\ requests = <<>>

\* nodes_collection.find_one({"node_codename": ..., "firmware_version": ...}):
\* the position of the first match, 0 for None.
FindVersion(docs, node_codename, firmware_version) ==
    IF \E i \in 1..Len(docs) : /\ docs[i]["node_codename"] = node_codename
                               /\ docs[i]["firmware_version"] = Some(firmware_version)
    THEN CHOOSE i \in 1..Len(docs) :
            /\ docs[i]["node_codename"] = node_codename
            /\ docs[i]["firmware_version"] = Some(firmware_version)
            /\ \A j \in 1..(i - 1) : ~ /\ docs[j]["node_codename"] = node_codename
                                       /\ docs[j]["firmware_version"] = Some(firmware_version)
    ELSE 0

\* repositories/node.py:128-132, 142-147  the members a firmware request sets.
FirmwareFields(r) ==
    [firmware_url |-> Some(r.firmware_url), firmware_version |-> Some(r.firmware_version),
     latest_updated |-> r.now]

\* routers/v1/node.py:49-62, services/node.py:36-49  a request with a
\* firmware_url and no file arrives for a node codename.
FirmwareRequest(node_codename, firmware_version, firmware_url) ==
    /\ Len(requests) < MaxRequests
    /\ requests' = Append(requests,
          [node_codename |-> node_codename, firmware_version |-> firmware_version,
           firmware_url |-> firmware_url, pc |-> "exists", status |-> 0,
           node |-> Null, now |-> 0])
    /\ UNCHANGED <<nodes, clock>>
    /\ NodeApiOnly

\* services/node.py:71-74  node_exist = await get_node_by_codename(...):
\* 404 when the node is not known.
upsert_firmware_exists(r) ==
    /\ requests[r].pc = "exists"
    /\ requests' = [requests EXCEPT ![r] =
          IF FindNode(nodes, requests[r].node_codename) # 0
          THEN [@ EXCEPT !.pc = "node"]
          ELSE [@ EXCEPT !.pc = "done", !.status = 404]]
    /\ UNCHANGED <<nodes, clock>>
    /\ NodeApiOnly

\* repositories/node.py:92-93  node = await find_one({"node_codename": ...});
\* now = get_current_datetime().
upsert_firmware_node(r) ==
    /\ requests[r].pc = "node"
    /\ LET i == FindNode(nodes, requests[r].node_codename)
       IN  requests' = [requests EXCEPT ![r] =
              [@ EXCEPT !.pc = "version", !.now = clock,
                        !.node = IF i = 0 THEN Null ELSE Some(nodes[i])]]
    /\ UNCHANGED <<nodes, clock>>
    /\ NodeApiOnly

\* repositories/node.py:96-103, services/node.py:84-86  version_exist = await
\* find_one(codename and version): with a document the repository returns
\* None and the service raises HTTPException(409).
upsert_firmware_version(r) ==
    /\ requests[r].pc = "version"
    /\ requests' = [requests EXCEPT ![r] =
          IF FindVersion(nodes, requests[r].node_codename, requests[r].firmware_version) # 0
          THEN [@ EXCEPT !.pc = "done", !.status = 409]
          ELSE [@ EXCEPT !.pc = "write"]]
    /\ UNCHANGED <<nodes, clock>>
    /\ NodeApiOnly

\* repositories/node.py:124-154, routers/v1/node.py:64-69  the node read at
\* line 92 has no firmware: find_one_and_update sets the firmware of the first
\* document of the codename; otherwise a copy of that node with the new
\* firmware is inserted.  The request is answered 200 (409 when
\* find_one_and_update matched nothing).
upsert_firmware_write(r) ==
    /\ requests[r].pc = "write"
    /\ LET q == requests[r]
           node == q.node
           i == FindNode(nodes, q.node_codename)
       IN  IF node # Null /\ node[1]["firmware_url"] = Null
                          /\ node[1]["firmware_version"] = Null
           THEN /\ nodes' = IF i = 0 THEN nodes
                            ELSE [nodes EXCEPT ![i] = DictMerge(@, FirmwareFields(q))]
                /\ requests' = [requests EXCEPT ![r] =
                      [@ EXCEPT !.pc = "done", !.status = IF i = 0 THEN 409 ELSE 200]]
           ELSE /\ nodes' = Append(nodes,
                      DictMerge(IF node # Null THEN node[1] ELSE <<>>,
                          DictMerge(FirmwareFields(q),
                              [x \in {"created_at", "_id"} |->
                                  IF x = "_id" THEN Len(nodes) + 1 ELSE q.now])))
                /\ requests' = [requests EXCEPT ![r] = [@ EXCEPT !.pc = "done", !.status = 200]]
    /\ UNCHANGED clock
    /\ NodeApiOnly

\* The node API under concurrent add-firmware requests for one node.
NextFirmware ==
    \/ \E v \in FirmwareVersions, u \in FirmwareUrls :
          FirmwareRequest(RegisteredNode["node_codename"], v, u)
    \/ \E r \in 1..Len(requests) : upsert_firmware_exists(r)
    \/ \E r \in 1..Len(requests) : upsert_firmware_node(r)
    \/ \E r \in 1..Len(requests) : upsert_firmware_version(r)
    \/ \E r \in 1..Len(requests) : upsert_firmware_write(r)

SpecFirmware == InitFirmware /\ [][NextFirmware]_vars

\* ------------------------------------------ DELETE /log/delete/{session_id}
MaxDeletes == 2

\* collection.delete_one(filter): the first match leaves the collection; its
\* _id is not given again.
DeleteOne(docs, filter) ==
    LET i == FindOne(docs, filter)
    IN  IF i = 0 THEN docs
        ELSE [docs EXCEPT ![i] = [x \in {"_id"} |-> docs[i]["_id"]]]

\* A step of the log API leaves the pipeline's tasks and the rest as they are.
LogApiOnly ==
    UNCHANGED <<tasks, nAccepted, clock, published, history, outcome, finished,
                delivered, mqtt, lifespan, nodes>>

\* routers/v1/log.py:91-98  an authenticated DELETE for a session id arrives.
DeleteRequest(session_id) ==
    /\ Len(requests) < MaxDeletes
    /\ requests' = Append(requests, [session_id |-> session_id, pc |-> "find", status |-> 0])
    /\ store' = store
    /\ LogApiOnly

\* services/log.py:91-94, repositories/log.py:114-133  log_exist = await
\* get_detail_log(session_id): find_one by session id alone; None, also when
\* LogModel rejects the document, is answered 404.
delete_log_find(r) ==
    /\ requests[r].pc = "find"
    /\ LET i == FindOne(store, [session_id |-> requests[r].session_id])
       IN  requests' = [requests EXCEPT ![r] =
              IF i # 0 /\ LogModel(store[i])
              THEN [@ EXCEPT !.pc = "delete"]
              ELSE [@ EXCEPT !.pc = "done", !.status = 404]]
    /\ store' = store
    /\ LogApiOnly

\* services/log.py:96-101, repositories/log.py:150-157  deleted = await
\* delete_one({"session_id": session_id}): 404 when nothing was deleted,
\* 204 otherwise.
delete_log(r) ==
    /\ requests[r].pc = "delete"
    /\ LET filter == [session_id |-> requests[r].session_id]
       IN  /\ store' = DeleteOne(store, filter)
           /\ requests' = [requests EXCEPT ![r] =
                  [@ EXCEPT !.pc = "done",
                            !.status = IF FindOne(store, filter) # 0 THEN 204 ELSE 404]]
    /\ LogApiOnly

\* The pipeline of one session without store errors, and an administrator
\* who deletes the log of that session.
NextAdmin ==
    \/ nAccepted < MaxTasks /\ \E msg \in ScenarioMessages : on_message(msg)
    \/ Tick
    \/ \E t \in tasks : upsert_log_find(t)
    \/ \E t \in tasks : upsert_log_update(t)
    \/ \E t \in tasks : upsert_log_reread(t)
    \/ \E t \in tasks : upsert_log_insert(t)
    \/ \E t \in tasks : upsert_log_publish(t)
    \/ DeleteRequest("s1")
    \/ \E r \in 1..Len(requests) : delete_log_find(r)
    \/ \E r \in 1..Len(requests) : delete_log(r)

SpecAdmin == Init /\ [][NextAdmin]_vars

TypeOK ==
    /\ nAccepted \in 0..MaxTasks
    /\ clock \in 0..MaxClock
    /\ Len(store) <= MaxTasks + 1

\* ------------------------------------------------------------------ claims
\* The identity of a stored document: its seven identity members.
KeyOf(doc) ==
    [f \in IdentityFields |-> doc[f]]

\* The positions of the documents of an identity.
RecordsOf(docs, key) ==
    {i \in 1..Len(docs) : KeyOf(docs[i]) = key}

\* The record of an identity: the first document stored for it, 0 if none.
RecordOf(docs, key) ==
    IF RecordsOf(docs, key) = {} THEN 0
    ELSE CHOOSE i \in RecordsOf(docs, key) : \A j \in RecordsOf(docs, key) : i <= j

\* C1: in every reachable state of the store, at most one document has a
\* given tuple of the seven identity members.
C1_AtMostOneRecordPerIdentity ==
    \A i, j \in 1..Len(store) : KeyOf(store[i]) = KeyOf(store[j]) => i = j

\* C2: once every upsert task has completed, an identity that messages were
\* processed for has a record that holds every member those messages set,
\* each with the value of the last processed message that sets it.
C2_FinalRecordIsUnionLastWins ==
    tasks = {} =>
        \A key \in DOMAIN history :
            \E i \in RecordsOf(store, key) :
                \A f \in UpdateFieldNames :
                    history[key].set[f] # <<>> =>
                        /\ f \in DOMAIN store[i]
                        /\ store[i][f] = history[key].set[f][1]

\* A step in which task t commits its write to the store.
WriteStep(t) ==
    upsert_log_update(t) \/ upsert_log_insert(t)

\* Any step of task t.
TaskStep(t) ==
    \/ upsert_log_find(t)
    \/ WriteStep(t)
    \/ upsert_log_reread(t)
    \/ upsert_log_publish(t)
    \/ upsert_log_fail(t)

\* The record of the identity is the same document before and after the
\* step, but for the members in `except`.
SameRecordBut(key, except) ==
    /\ RecordOf(store', key) = RecordOf(store, key)
    /\ RecordOf(store, key) # 0
    /\ LET before == store[RecordOf(store, key)]
           after  == store'[RecordOf(store, key)]
       IN  /\ DOMAIN after = DOMAIN before
           /\ \A f \in DOMAIN before \ except : after[f] = before[f]

\* C3 as claimed: when the message a task carries is the one whose write was
\* the last committed for its identity, the task's write leaves the record
\* of that identity as it was.
C3_SameMessageTwiceSameRecord ==
    [][\A t \in tasks :
          (WriteStep(t) /\ SamePayload(t, HistoryOf(t.key)))
              => SameRecordBut(t.key, {})]_vars

\* C3 as amended: the second processing of a message leaves the record as it
\* was, but for the time that the server stamps for a time-stamping kind.
C3_SameMessageTwiceSameButStamp ==
    [][\A t \in tasks :
          (WriteStep(t) /\ SamePayload(t, HistoryOf(t.key)))
              => SameRecordBut(t.key, TimestampFields \cap DOMAIN t.update_fields)]_vars

\* A message has been processed a second time, for a kind that carries a
\* number and for a kind that stamps a time.
C3_Witness ==
    \E key \in DOMAIN history :
        /\ history[key].repeated
        /\ history[key].message = FirmwareSizeOk
        /\ history[key].update_fields["firmware_size_kb"] = <<2>>
        /\ store[RecordOf(store, key)]["firmware_size_kb"] = <<2>>

\* The messages with an identity member that is missing or empty.
IdentityIncomplete(msg) ==
    /\ msg.json = "object"
    /\ \E f \in IdentityFields : msg.ident[f].t = "absent" \/ msg.ident[f].s = ""

IncompleteMessages == {msg \in DecoderMessages : IdentityIncomplete(msg)}

\* C4: a message with an identity member absent or empty starts no task,
\* changes no document and publishes nothing.
C4_IncompleteIdentityNoEffect ==
    [][\/ UNCHANGED <<store, tasks, nAccepted, published, history, finished>>
       \/ ~ \E msg \in IncompleteMessages : on_message(msg)]_vars

C4_Witness ==
    /\ outcome = "missing_field"
    /\ store # <<>>
    /\ tasks # {}

SevenKinds ==
    {OtaUpdateStarted, FirmwareSizeOk, FirmwareBytesWritten, DownloadTime,
     DownloadSpeed, DownloadComplete, OtaUpdateComplete}

\* The messages with a complete identity whose text, trimmed and lower-cased,
\* is none of the seven kinds.
UnknownKindMessages ==
    {msg \in DecoderMessages :
        /\ msg.json = "object"
        /\ ~IdentityIncomplete(msg)
        /\ msg.message.t \in {"absent", "str"}
        /\ lower(strip(MessageText(msg))) \notin SevenKinds}

\* C5: a message of an unknown kind starts no task and changes no document,
\* also for an identity that has no record.
C5_UnknownKindNoEffect ==
    [][\/ UNCHANGED <<store, tasks, nAccepted, published, history, finished>>
       \/ ~ \E msg \in UnknownKindMessages : on_message(msg)]_vars

C5_Witness ==
    /\ outcome = "unknown"
    /\ store # <<>>
    /\ \A i \in 1..Len(store) : store[i]["session_id"] = "s1"

RetainedMessages == {msg \in DecoderMessages : msg.retain}

\* C6: a retained message is not decoded, starts no task, changes no
\* document and publishes nothing, whatever its payload.
C6_RetainedNeverProcessed ==
    [][\A msg \in RetainedMessages :
          on_message(msg) =>
              /\ UNCHANGED <<store, tasks, nAccepted, published, history, finished>>
              /\ outcome' = "retained"]_vars

C6_Witness ==
    /\ outcome = "retained"
    /\ store # <<>>
    /\ tasks # {}

\* The unset progress members of a document are explicit nulls.
UnsetAreNull(doc, update_fields) ==
    \A f \in ProgressFields \ DOMAIN update_fields :
        f \in DOMAIN doc /\ doc[f] = Null

\* C7 as claimed: the insert branch adds exactly one document, whose unset
\* progress members are null and whose flash_status is "in progress".
C7_CreatedInProgress ==
    [][\A t \in tasks :
          upsert_log_insert(t) =>
              /\ Len(store') = Len(store) + 1
              /\ SubSeq(store', 1, Len(store)) = store
              /\ KeyOf(store'[Len(store')]) = t.key
              /\ UnsetAreNull(store'[Len(store')], t.update_fields)
              /\ "flash_status" \in DOMAIN store'[Len(store')]
              /\ store'[Len(store')]["flash_status"] = IN_PROGRESS]_vars

\* C7 as amended: flash_status is "in progress" unless the creating message
\* is "ota update complete", for which it is "success".
C7_CreatedWithDefaults ==
    [][\A t \in tasks :
          upsert_log_insert(t) =>
              /\ Len(store') = Len(store) + 1
              /\ SubSeq(store', 1, Len(store)) = store
              /\ KeyOf(store'[Len(store')]) = t.key
              /\ UnsetAreNull(store'[Len(store')], t.update_fields)
              /\ "flash_status" \in DOMAIN store'[Len(store')]
              /\ store'[Len(store')]["flash_status"] =
                    IF t.message = OtaUpdateComplete THEN SUCCESS ELSE IN_PROGRESS]_vars

\* One message, "Firmware size OK", has created the record of its identity.
C7_Witness ==
    /\ nAccepted = 1
    /\ Len(store) = 1
    /\ store[1]["firmware_size_kb"] = <<1>>
    /\ store[1]["flash_status"] = IN_PROGRESS
    /\ \A f \in ProgressFields \ {"firmware_size_kb"} : store[1][f] = Null

\* C8: a step of a task leaves every document of another identity as it is,
\* adds documents of its own identity only and publishes a record of its
\* own identity only.
C8_IdentitiesIndependent ==
    [][\A t \in tasks :
          TaskStep(t) =>
              /\ Len(store') >= Len(store)
              /\ \A i \in 1..Len(store) :
                    KeyOf(store[i]) # t.key => store'[i] = store[i]
              /\ \A i \in (Len(store) + 1)..Len(store') : KeyOf(store'[i]) = t.key
              /\ published' # published =>
                    /\ Len(published') = Len(published) + 1
                    /\ KeyOf(published'[Len(published')]) = t.key]_vars

\* Two identities that differ only in session_id have been processed
\* concurrently, and each has its record.
C8_Witness ==
    /\ tasks = {}
    /\ Len(store) = 2
    /\ store[1]["session_id"] = "s2"
    /\ store[2]["session_id"] = "s1"
    /\ store[1]["created_at"] = store[2]["created_at"]
    /\ Len(published) = 2

\* The members each kind is mapped to.
FieldsOfKind(message) ==
    CASE message = OtaUpdateStarted     -> {"download_started_at", "flash_status"}
      [] message = FirmwareSizeOk       -> {"firmware_size_kb"}
      [] message = FirmwareBytesWritten -> {"bytes_written"}
      [] message = DownloadTime         -> {"download_duration_sec"}
      [] message = DownloadSpeed        -> {"download_speed_kbps"}
      [] message = DownloadComplete     -> {"download_completed_at"}
      [] message = OtaUpdateComplete    -> {"flash_completed_at", "flash_status"}
      [] OTHER                          -> {}

\* C9: the update of an existing record changes the members mapped to the
\* message's kind and nothing else; "ota update complete" sets flash_status
\* to "success" and flash_completed_at.
C9_UpdateChangesOnlyMappedFields ==
    [][\A t \in tasks :
          upsert_log_update(t) =>
              /\ Len(store') = Len(store)
              /\ \A i \in 1..Len(store) :
                    /\ DOMAIN store'[i] = DOMAIN store[i]
                    /\ \A f \in DOMAIN store[i] :
                          store'[i][f] # store[i][f] =>
                              /\ i = RecordOf(store, t.key)
                              /\ f \in FieldsOfKind(t.message)
              /\ t.message = OtaUpdateComplete =>
                    /\ RecordOf(store, t.key) # 0
                    /\ store'[RecordOf(store, t.key)]["flash_status"] = SUCCESS
                    /\ store'[RecordOf(store, t.key)]["flash_completed_at"] # Null]_vars

\* "OTA update complete" has updated a record that held a firmware size.
C9_Witness ==
    /\ tasks = {}
    /\ Len(store) = 1
    /\ HistoryOf(KeyOf(store[1])).message = OtaUpdateComplete
    /\ store[1]["flash_status"] = SUCCESS
    /\ store[1]["flash_completed_at"] # Null
    /\ store[1]["firmware_size_kb"] = <<1>>

\* C10: once a progress member of a document holds a non-null value, no step
\* of the pipeline makes it null again.
C10_ProgressNeverCleared ==
    [][\A i \in 1..Len(store) : \A f \in ProgressFields :
          (f \in DOMAIN store[i] /\ store[i][f] # Null) =>
              (i <= Len(store') /\ f \in DOMAIN store'[i] /\ store'[i][f] # Null)]_vars

\* C11: created_at is set when the document is inserted, to the server time
\* of the insert, and no later step changes the created_at of a document.
C11_CreatedAtImmutable ==
    [][/\ \A i \in 1..Len(store) :
             /\ i <= Len(store')
             /\ store'[i]["created_at"] = store[i]["created_at"]
       /\ \A t \in tasks :
             upsert_log_insert(t) => store'[Len(store')]["created_at"] = clock]_vars

\* A record created at time 0 has been updated by a message decoded at time 1.
C11_Witness ==
    \E i \in 1..Len(store) :
        /\ store[i]["created_at"] = 0
        /\ store[i]["download_completed_at"] = <<1>>

\* C12: a document is created "in progress" unless the creating message is
\* "ota update complete"; a document becomes "success" only by the write of
\* an "ota update complete" message of its identity; no task carries
\* "success" for another kind, and nothing writes "failed".
C12_SuccessOnlyOnComplete ==
    [][/\ \A i \in 1..Len(store') :
             /\ store'[i]["flash_status"] \in {IN_PROGRESS, SUCCESS}
             /\ i > Len(store) =>
                   \E t \in tasks :
                       /\ upsert_log_insert(t)
                       /\ t.message # OtaUpdateComplete =>
                             store'[i]["flash_status"] = IN_PROGRESS
             /\ (/\ store'[i]["flash_status"] = SUCCESS
                 /\ (i > Len(store) \/ store[i]["flash_status"] # SUCCESS)) =>
                   \E t \in tasks :
                       /\ WriteStep(t)
                       /\ t.message = OtaUpdateComplete
                       /\ t.key = KeyOf(store'[i])
       /\ \A t \in tasks' :
             "flash_status" \in DOMAIN t.update_fields =>
                 /\ t.update_fields["flash_status"] # FAILED
                 /\ t.update_fields["flash_status"] = SUCCESS =>
                       t.message = OtaUpdateComplete]_vars

\* A record created "in progress" by "Firmware size OK" at time 0 has become
\* "success" by an "OTA update complete" decoded at time 1.
C12_Witness ==
    \E i \in 1..Len(store) :
        /\ store[i]["created_at"] = 0
        /\ store[i]["firmware_size_kb"] = <<1>>
        /\ store[i]["flash_completed_at"] = <<1>>
        /\ store[i]["flash_status"] = SUCCESS

\* The messages that fail to decode: a payload that is not UTF-8, not JSON or
\* not a JSON object, a message text that is not a str, a data member that is
\* null or not an object.
FailsToDecode(msg) ==
    \/ msg.json # "object"
    \/ msg.message.t = "other"
    \/ msg.data.t \in {"null", "other"}

\* The log lines on_message ends with when it returns normally.
ReturnLines ==
    {"retained", "json_error", "key_error", "error", "missing_field", "unknown", "scheduled"}

\* C13: on_message returns normally for every inbound message, and a message
\* that fails to decode starts no task and changes nothing.
C13_OnMessageNeverRaises ==
    [][/\ outcome' \in ReturnLines \cup {outcome}
       /\ \/ /\ outcome' \in {"retained", "json_error", "error", "missing_field"}
             /\ UNCHANGED <<store, tasks, nAccepted, published, history, finished>>
          \/ ~ \E msg \in DecoderMessages : FailsToDecode(msg) /\ on_message(msg)]_vars

\* A message was dropped by the catch-all clause while a task was in flight
\* and a record was stored.
C13_Witness ==
    /\ outcome = "error"
    /\ Len(store) = 1
    /\ \E t \in tasks : t.pc = "update"

\* The numbers of the tasks that have not ended.
InFlight == {t.n : t \in tasks}

\* C14: each accepted message has exactly one task, in flight or ended; a
\* task has made no call to the upsert engine before its first store
\* operation and exactly one from then on, also after a failed operation.
C14_ExactlyOneAttempt ==
    /\ InFlight \cup DOMAIN finished = 1..nAccepted
    /\ InFlight \cap DOMAIN finished = {}
    /\ Cardinality(tasks) = Cardinality(InFlight)
    /\ \A t \in tasks : t.calls = IF t.pc = "find" THEN 0 ELSE 1
    /\ \A n \in DOMAIN finished : finished[n].calls = 1

\* Two messages were accepted: the task of the first ended on a failed store
\* operation, the task of the second published.
C14_Witness ==
    /\ nAccepted = 2
    /\ DOMAIN finished = {1, 2}
    /\ finished[1].status = "failed"
    /\ finished[2].status = "published"
    /\ Len(store) = 1

\* The write of the n-th accepted message, for identity key, is committed.
HasWritten(n, key) ==
    \/ \E t \in tasks : t.n = n /\ t.key = key /\ t.pc \in {"reread", "publish"}
    \/ n \in DOMAIN finished /\ finished[n].key = key /\ finished[n].wrote

\* C15: when the write of a message is committed, no message of the same
\* identity that on_message received later has its write committed already.
C15_WritesInArrivalOrder ==
    [][\A u \in tasks :
          WriteStep(u) =>
              \A n \in (u.n + 1)..nAccepted : ~HasWritten(n, u.key)]_vars

\* A step of task t in which its pending operation completes.
Completes(t) ==
    \/ upsert_log_find(t)
    \/ WriteStep(t)
    \/ upsert_log_reread(t)
    \/ upsert_log_publish(t)

\* C16: whatever store operations are pending, on_message can take the next
\* message, and it returns with the store as it was and the new task before
\* its first store operation; and every task in flight can complete its
\* pending operation whatever the other tasks are waiting for.
C16_CallbackNeverWaits ==
    /\ nAccepted < MaxTasks =>
          \A msg \in LiveMessages :
              ENABLED (/\ on_message(msg)
                       /\ store' = store
                       /\ tasks \subseteq tasks'
                       /\ \A t \in tasks' \ tasks : t.pc = "find" /\ t.calls = 0)
    /\ \A t \in tasks : ENABLED Completes(t)

\* The find_one of the first message's task has not completed, and the
\* second message has been decoded, handed off, stored and published.
C16_Witness ==
    /\ nAccepted = 2
    /\ \E t \in tasks : t.n = 1 /\ t.pc = "find"
    /\ DOMAIN finished = {2}
    /\ finished[2].status = "published"
    /\ Len(store) = 1

\* C17: when a store operation of a task fails, the engine returns None and
\* raises nothing, and the task ends without an exception and without a
\* publish.
C17_StoreFailureIsFailure ==
    [][\A t \in tasks :
          upsert_log_fail(t) =>
              /\ published' = published
              /\ t.n \notin {u.n : u \in tasks'}
              /\ t.n \in DOMAIN finished'
              /\ finished'[t.n].status = "failed"
              /\ \A n \in DOMAIN finished : finished'[n] = finished[n]]_vars

\* The first task created and published the record; the update_one of the
\* second task was committed and the find_one after it failed.
C17_Witness ==
    /\ DOMAIN finished = {1, 2}
    /\ finished[1].status = "published"
    /\ finished[2].status = "failed"
    /\ finished[2].wrote
    /\ Len(published) = 1
    /\ Len(store) = 1

\* The wire form of a record: its members by field name, the times as text.
WireForm(doc) ==
    json_dumps_with_datetime(model_dump(doc))

\* C18: the outbound topic changes only in the publish step of a task that
\* holds a record its one engine call returned; the step appends that record
\* and ends the task, so that the publishes are as many as the tasks that
\* ended "published"; the payload is the wire form of the record; the
\* record a task holds is a stored document of its
\* identity, read or inserted in the step that returned it.
C18_PublishOnlyReturnedRecord ==
    [][/\ published' # published =>
             \E t \in tasks :
                 /\ upsert_log_publish(t)
                 /\ t.calls = 1
                 /\ t.result # Null
                 /\ published' = Append(published, WireForm(t.result[1]))
                 /\ t.n \notin {u.n : u \in tasks'}
                 /\ t.n \notin DOMAIN finished
                 /\ finished'[t.n].status = "published"
       /\ Len(published') =
             Cardinality({n \in DOMAIN finished' : finished'[n].status = "published"})
       /\ \A u \in tasks' \ tasks :
             u.pc = "publish" =>
                 \E i \in 1..Len(store') :
                     /\ u.result = Some(store'[i])
                     /\ KeyOf(store'[i]) = u.key
       /\ \A u \in tasks' : u.pc # "publish" => u.result = Null]_vars

\* Two messages of one identity: the first created the record, the second
\* updated it, and each task published the record it got back.
C18_Witness ==
    /\ tasks = {}
    /\ Len(store) = 1
    /\ Len(published) = 2
    /\ published[1] # published[2]
    /\ published[2] = WireForm(store[1])
    /\ \A n \in DOMAIN finished : finished[n].status = "published"

\* C19: a publish step that puts nothing on the outbound topic leaves the
\* store and the committed writes as they are and ends the task, which is
\* not run again.
C19_PublishFailureKeepsWrite ==
    [][\A t \in tasks :
          (upsert_log_publish(t) /\ published' = published) =>
              /\ store' = store
              /\ history' = history
              /\ \E i \in 1..Len(store') : KeyOf(store'[i]) = t.key
              /\ tasks' = tasks \ {t}
              /\ t.n \notin DOMAIN finished
              /\ finished'[t.n].status = "publish_failed"
              /\ finished'[t.n].wrote]_vars

\* The only task created a record with firmware_size_kb 2 and ended with its
\* publish skipped: the record is stored and nothing was published.
C19_Witness ==
    /\ tasks = {}
    /\ published = <<>>
    /\ DOMAIN finished = {1}
    /\ finished[1].status = "publish_failed"
    /\ Len(store) = 1
    /\ store[1]["firmware_size_kb"] = <<2>>

\* The number a message carries for its kind, Null when the kind carries none.
NumberOfKind(msg) ==
    LET message == Normalize(MessageText(msg))
    IN  IF message = FirmwareSizeOk THEN DataGet(msg, "size_kb")
        ELSE IF message = FirmwareBytesWritten THEN DataGet(msg, "bytes")
        ELSE IF message = DownloadTime THEN DataGet(msg, "seconds")
        ELSE IF message = DownloadSpeed THEN DataGet(msg, "speed_kbps")
        ELSE Null

\* Two deliveries of JSON objects that agree on the seven identity members,
\* on the message text and on the number of their kind, and that differ in
\* another member.
Agree(m1, m2) ==
    /\ m1 # m2
    /\ m1.retain = m2.retain
    /\ m1.json = "object" /\ m2.json = "object"
    /\ m1.ident = m2.ident
    /\ m1.message = m2.message
    /\ NumberOfKind(m1) = NumberOfKind(m2)

AgreeingPairs ==
    {p \in VariantMessages \X VariantMessages : Agree(p[1], p[2])}

\* C20: of two messages that agree on identity, message text and the number
\* of their kind, on_message makes the same of both: the same log line and
\* the same task (identity, kind, members to set), so the same store writes
\* and the same published record, whatever else the payloads carry.
C20_OnlyServerSetsTimeAndStatus ==
    [][\A p \in AgreeingPairs : Handoff(p[1]) <=> Handoff(p[2])]_vars

\* The identities that have a record.
Identities(docs) ==
    {KeyOf(docs[i]) : i \in 1..Len(docs)}

\* C25: no step of the pipeline removes a log record: an identity that has
\* a record before a step has one after it.
C25_NoRecordRemoved ==
    [][Identities(store) \subseteq Identities(store')]_vars

\* Two identities have a record, the second created while the first existed,
\* and every task has completed.
C25_Witness ==
    /\ tasks = {}
    /\ Cardinality(Identities(store)) = 2
    /\ Len(store) = 2

\* C27: a record whose flash_status is "success" keeps it under every later
\* write to the store.
C27_SuccessIsFinal ==
    [][\A i \in 1..Len(store) :
          store[i]["flash_status"] = SUCCESS
              => store'[i]["flash_status"] = SUCCESS]_vars

\* Both messages of the scenario were processed for the identity: the write
\* of "OTA update started" and then, as the last write, the write of
\* "Firmware size OK" (the one of the scenario carries size_kb 1024).
StartedThenSize(key) ==
    /\ tasks = {}
    /\ DOMAIN finished = {1, 2}
    /\ \A n \in {1, 2} : finished[n].wrote /\ finished[n].key = key
    /\ key \in DOMAIN history
    /\ history[key].message = FirmwareSizeOk
    /\ history[key].set["download_started_at"] # <<>>

\* C26: after "OTA update started" and then "Firmware size OK" with size_kb
\* 1024, processed one after the other for an unseen identity, the identity
\* has one record, with flash_status "in progress", download_started_at
\* set, firmware_size_kb 1024 and every other progress member null.
C26_StartedThenSizeScenario ==
    \A key \in DOMAIN history :
        StartedThenSize(key) =>
            /\ Cardinality(RecordsOf(store, key)) = 1
            /\ LET doc == store[RecordOf(store, key)]
               IN  /\ doc["flash_status"] = IN_PROGRESS
                   /\ doc["download_started_at"] # Null
                   /\ doc["firmware_size_kb"] = <<1024>>
                   /\ \A f \in ProgressFields \ {"download_started_at", "firmware_size_kb"} :
                         doc[f] = Null

\* The scenario has run and both records went out on the outbound topic.
C26_Witness ==
    /\ \E key \in DOMAIN history : StartedThenSize(key)
    /\ Len(published) = 2
    /\ Len(store) = 1

\* C28: on a record that exists, once the tasks have completed, the record
\* holds every member that a task's update set, with the value last written
\* to it: of two tasks that set different members, neither update is lost.
C28_NoLostUpdate ==
    LET key == KeyOf(ExistingRecord)
    IN  /\ RecordsOf(store, key) = {1}
        /\ (tasks = {} /\ key \in DOMAIN history) =>
              \A f \in UpdateFieldNames :
                  history[key].set[f] # <<>> => store[1][f] = history[key].set[f][1]

\* Two tasks have updated the existing record, one setting the start time
\* and the status, the other the firmware size; the record holds both and
\* what it held before.
C28_Witness ==
    /\ tasks = {}
    /\ DOMAIN finished = {1, 2}
    /\ \A n \in {1, 2} : finished[n].wrote /\ finished[n].key = KeyOf(ExistingRecord)
    /\ Len(store) = 1
    /\ store[1]["download_started_at"] # Null
    /\ store[1]["firmware_size_kb"] = <<1024>>
    /\ store[1]["download_duration_sec"] = <<1>>

\* The positions in `published` of the notifications of an identity.
NotificationsOf(key) ==
    {i \in 1..Len(published) : KeyOf(published[i]) = key}

\* The last notification published for an identity.
LastNotification(key) ==
    published[CHOOSE i \in NotificationsOf(key) : \A j \in NotificationsOf(key) : j <= i]

\* C30: once every task has completed, each with its notification
\* published, the last notification of an identity that has one record
\* carries that record as the store holds it.
C30_LastNotificationIsStored ==
    (/\ tasks = {}
     /\ \A n \in DOMAIN finished : finished[n].status = "published")
        => \A key \in Identities(store) :
              (Cardinality(RecordsOf(store, key)) = 1 /\ NotificationsOf(key) # {})
                  => LastNotification(key) = WireForm(store[RecordOf(store, key)])

\* C29: every task whose upsert committed a write got the record back and
\* went on to the publish attempt.
C29_WriteThenPublishAttempt ==
    \A n \in DOMAIN finished :
        finished[n].wrote => finished[n].status \in {"published", "publish_failed"}

\* C21: when connect_mqtt_client gave no client, the subsystem is inert:
\* start_mqtt_service returns False, nothing is subscribed and no callback
\* registered, no task is started, stop_mqtt_service returns False and a
\* publish attempt sends nothing.
C21_ConnectFailureLeavesInert ==
    (lifespan.pc # "import" /\ ~mqtt.client) =>
        /\ lifespan.mqtt_client_connected \in {Null, <<FALSE>>}
        /\ ~mqtt.subscribed /\ ~mqtt.on_message /\ mqtt.calls = <<>>
        /\ nAccepted = 0 /\ tasks = {} /\ store = <<>>
        /\ stop_mqtt_service_returns(mqtt.client) = FALSE
        /\ lifespan.stopped \in {Null, <<FALSE>>}
        /\ \A connected \in is_connected :
              publish_log_data(connected, model_dump(InsertOne(<<>>, ExistingRecord)[1]))
                  = published

\* The connection failed at construction and the process ran from startup
\* to the end of its shutdown.
C21_Witness ==
    /\ ~mqtt.client
    /\ lifespan.pc = "done"
    /\ lifespan.mqtt_client_connected = <<FALSE>>

\* C22: stop_mqtt_service reports the subsystem stopped only after
\* loop_stop() and then disconnect() were called, and once it has reported,
\* on_message is not called again.
C22_StopLoopThenDisconnect ==
    [][/\ lifespan'.stopped = <<TRUE>> =>
              \E i, j \in 1..Len(mqtt'.calls) :
                  /\ i < j
                  /\ mqtt'.calls[i] = "loop_stop"
                  /\ mqtt'.calls[j] = "disconnect"
       /\ lifespan.stopped = <<TRUE>> =>
              ~ \E msg \in ServiceMessages : on_message(msg)]_vars

\* The subsystem was started, took messages, and was stopped while a task
\* was still running.
C22_Witness ==
    /\ lifespan.stopped = <<TRUE>>
    /\ mqtt.calls = <<"loop_start", "subscribe", "loop_stop", "disconnect">>
    /\ nAccepted >= 1
    /\ tasks # {}

\* C23: start_mqtt_service has returned True only if the topic is subscribed
\* and on_message registered.
C23_TrueOnlyIfSubscribed ==
    lifespan.mqtt_client_connected = <<TRUE>> => (mqtt.subscribed /\ mqtt.on_message)

\* The requests that carry the same node_location, node_type and node_id.
SameNode(r1, r2) ==
    requests[r1].payload = requests[r2].payload

\* C24: of the requests that carry the same node, at most one is answered
\* 201, and the store holds at most one document of that node; once the
\* requests for a codename are all answered, without a store error, one of
\* them was answered 201.
C24_OneNodePerCodename ==
    /\ \A r1, r2 \in 1..Len(requests) :
          (SameNode(r1, r2) /\ requests[r1].status = 201 /\ requests[r2].status = 201)
              => r1 = r2
    /\ \A i, j \in 1..Len(nodes) :
          (\A f \in {"node_location", "node_type", "node_id"} : nodes[i][f] = nodes[j][f])
              => i = j
    /\ \A r \in 1..Len(requests) :
          LET same == {q \in 1..Len(requests) :
                          CodenameOf(requests[q].payload) = CodenameOf(requests[r].payload)}
          IN  (\A q \in same : requests[q].status \in {201, 409})
                  => \E q \in same : requests[q].status = 201

\* The kinds whose handler sets no number taken from `data`.
NoNumberKinds == {OtaUpdateStarted, DownloadComplete, OtaUpdateComplete}

\* C36: a delivery of a kind that needs no number, with a complete identity,
\* is applied (its upsert is scheduled) whatever its data member is: absent,
\* an object, null or a value that is not an object.
C36_NoNumberKindAppliedWhateverData ==
    [][\A msg \in VariantMessages :
          (Normalize(MessageText(msg)) \in NoNumberKinds /\ Handoff(msg))
              => outcome' = "scheduled"]_vars

\* A task performs one of its store operations (find_one, update_one,
\* insert_one, or the raise of one of them) in this step.
StoreOperation ==
    \E t \in tasks : t.pc \in {"find", "update", "reread", "insert"} /\ t \notin tasks'

\* C31: once the shutdown has closed the store client, on_message is not
\* called any more and no upsert task performs a store operation.
C31_NoStoreUseAfterClose ==
    [][lifespan.db_closed =>
          /\ ~ StoreOperation
          /\ ~ \E msg \in ServiceMessages : on_message(msg)]_vars

\* C32: when the shutdown sequence has ended, no network loop thread that
\* start_mqtt_service started is still running, whatever start_mqtt_service
\* had returned.
C32_LoopStoppedAtShutdown ==
    lifespan.pc = "done" => mqtt.loop # "running"

\* C33: no message that the broker forwards for the subscription finds the
\* client without a registered callback: every one of them reaches
\* on_message.
C33_SubscribedImpliesCallback ==
    [][~ \E msg \in ServiceMessages : ~IsRetained(msg) /\ DeliverNoCallback(msg)]_vars

\* The steps the program takes by itself: the startup sequence and the steps
\* of the upsert tasks.  Deliveries, reconnections and the shutdown are
\* events of the environment, which may or may not happen.
ProgramStep ==
    \/ connect_mqtt_client
    \/ start_mongodb_connection
    \/ start_mqtt_service
    \/ start_mqtt_service_wait
    \/ subscribe_message
    \/ subscribe_message_register
    \/ Step

\* The process under a scheduler that lets the startup sequence and every
\* scheduled task run.
SpecServiceLive == InitService /\ [][NextService]_vars /\ WF_vars(ProgramStep)

\* C34: whenever the application runs and the client, having subscribed, has
\* connected again, so that the session the broker holds has no subscription,
\* the adapter eventually issues the subscription again (unless the
\* application is shut down first).
C34_ResubscribesAfterReconnect ==
    []((lifespan.pc = "app" /\ mqtt.subscribed /\ mqtt.clean_session)
          => <>(lifespan.pc # "app" \/ ~mqtt.clean_session))

\* C35: with no store error, the update and the re-read of an upsert task
\* leave a record of the task's identity in the store, also when a
\* delete_log of the session ran after the task's find.
C35_UpsertSurvivesDelete ==
    [][\A t \in tasks :
          (t.pc \in {"update", "reread"} /\ t \notin tasks')
              => FindOne(store', filter_query(t.key)) # 0]_vars

\* No two node records of one codename carry the same firmware_version.
OneRecordPerVersion ==
    \A i, j \in 1..Len(nodes) :
        (/\ i # j
         /\ nodes[i]["node_codename"] = nodes[j]["node_codename"]
         /\ nodes[i]["firmware_version"] # Null)
            => nodes[i]["firmware_version"] # nodes[j]["firmware_version"]

\* The firmware of every request answered 200 is in the node store.
AcceptedFirmwareKept ==
    \A r \in 1..Len(requests) :
        requests[r].status = 200 =>
            \E i \in 1..Len(nodes) :
                /\ nodes[i]["node_codename"] = requests[r].node_codename
                /\ nodes[i]["firmware_version"] = Some(requests[r].firmware_version)
                /\ nodes[i]["firmware_url"] = Some(requests[r].firmware_url)

\* C37: under any interleaving of add-firmware requests for a node, the node
\* store holds at most one record per firmware_version of the codename, no
\* accepted firmware is overwritten, and a request answered 409 changes
\* nothing.
C37_OneRecordPerFirmwareVersion ==
    [][/\ OneRecordPerVersion'
       /\ AcceptedFirmwareKept'
       /\ \A r \in 1..Len(requests) :
             (requests[r].status # 409 /\ requests'[r].status = 409) => nodes' = nodes]_vars

====
